---------------------------- MODULE Spec2Model ----------------------------
(***************************************************************************)
(* Flower Shop signup service (src/signup.py): accounts and pending OTPs   *)
(* kept in two whole-document JSON files, and the four handlers signup,    *)
(* verify_otp, resend_otp and login that read and rewrite them.            *)
(*                                                                         *)
(* Strings the code inspects (emails, passwords, OTP codes) are sequences  *)
(* of one-character strings, so that the regular expressions and the       *)
(* digit generation are computed and not assumed.  Time is counted in      *)
(* ticks of 1/TicksPerSec second, because time.time() is a float and the   *)
(* cooldown arithmetic depends on fractions of a second.                   *)
(***************************************************************************)
EXTENDS Integers, Sequences, FiniteSets, TLC

VARIABLES
    usersFile,   \* data/users.json: the accounts document
    otpsFile,    \* data/otps.json: the pending-OTP document
    now,         \* the clock read by time.time(), in ticks
    last,        \* the request handled last and the response it got
    stdout,      \* what the handler of that request printed to the console
    productsFile,\* data/products.json: the product list (src/product.py)
    procs        \* the requests in flight when handlers interleave

vars == <<usersFile, otpsFile, now, last, stdout, productsFile, procs>>

\* what the handlers of src/signup.py, run to completion, never touch
others == <<productsFile, procs>>

-----------------------------------------------------------------------------
(* Bounds of the model *)

\* clock resolution: ticks per second
TicksPerSec == 2
\* the clock stops after this many cooldown periods
MaxClock == 1
\* generate_otp draws among the first NumCodes 6-digit codes
NumCodes == 2
\* the product list is not grown beyond this length
MaxProducts == 3

(* Program constants *)

\* resend cooldown in seconds
COOLDOWN == 300
\* digits of an OTP (random.choices(..., k=6))
OTP_LEN == 6
\* minimum password length
MIN_PASSWORD_LEN == 8

-----------------------------------------------------------------------------
(* Character classes of Python's re module, restricted to ASCII *)

UpperAZ == {"A","B","C","D","E","F","G","H","I","J","K","L","M",
            "N","O","P","Q","R","S","T","U","V","W","X","Y","Z"}
LowerAZ == {"a","b","c","d","e","f","g","h","i","j","k","l","m",
            "n","o","p","q","r","s","t","u","v","w","x","y","z"}
DigitChars == {"0","1","2","3","4","5","6","7","8","9"}
\* \w
WordChars == UpperAZ \cup LowerAZ \cup DigitChars \cup {"_"}
\* [\w\.-]
LocalChars == WordChars \cup {".", "-"}

AllIn(s, lo, hi, class) == \A k \in lo..hi : s[k] \in class

\* ^[\w\.-]+@[\w\.-]+\.\w+ matched against the whole of t
MatchesEmailPattern(t) ==
    \E i \in 1..Len(t), j \in 1..Len(t) :
        /\ t[i] = "@"
        /\ t[j] = "."
        /\ 1 < i
        /\ i + 1 < j
        /\ j < Len(t)
        /\ AllIn(t, 1, i - 1, LocalChars)
        /\ AllIn(t, i + 1, j - 1, LocalChars)
        /\ AllIn(t, j + 1, Len(t), WordChars)

\* re.match(r"^[\w\.-]+@[\w\.-]+\.\w+$", email): $ matches at the end of the
\* string and also just before a newline that ends the string
is_valid_email(email) ==
    \/ MatchesEmailPattern(email)
    \/ /\ Len(email) > 0
       /\ email[Len(email)] = "\n"
       /\ MatchesEmailPattern(SubSeq(email, 1, Len(email) - 1))

HasCharIn(s, class) == \E k \in 1..Len(s) : s[k] \in class

\* a strength check that forgets the digit
is_strong_password_no_digit(password) ==
    /\ Len(password) >= MIN_PASSWORD_LEN
    /\ HasCharIn(password, UpperAZ)
    /\ HasCharIn(password, LowerAZ)

is_strong_password(password) ==
    /\ Len(password) >= MIN_PASSWORD_LEN
    /\ HasCharIn(password, UpperAZ)
    /\ HasCharIn(password, LowerAZ)
    /\ HasCharIn(password, DigitChars)

-----------------------------------------------------------------------------
(* OTP generation *)

DigitOf(d) == CASE d = 0 -> "0" [] d = 1 -> "1" [] d = 2 -> "2" [] d = 3 -> "3"
                [] d = 4 -> "4" [] d = 5 -> "5" [] d = 6 -> "6" [] d = 7 -> "7"
                [] d = 8 -> "8" [] d = 9 -> "9"

RECURSIVE Pow10(_)
Pow10(k) == IF k = 0 THEN 1 ELSE 10 * Pow10(k - 1)

\* ''.join(random.choices("0123456789", k=6)): the draw is the parameter n,
\* whose decimal digits (leading zeros kept) are the six characters
generate_otp(n) ==
    [k \in 1..OTP_LEN |-> DigitOf((n \div Pow10(OTP_LEN - k)) % 10)]

\* the draws the model lets random.choices make
Draws == 0..(NumCodes - 1)
Codes == {generate_otp(n) : n \in Draws}

-----------------------------------------------------------------------------
(* Record store *)

EmptyMap == [k \in {} |-> 0]

MissingFile == [kind |-> "missing", data |-> EmptyMap]

\* a load that hands back whatever the damaged document held
load_data_reads_damaged(file) ==
    IF file.kind = "missing" THEN EmptyMap ELSE file.data

\* a missing file and an undecodable one both load as {}
load_data(file) ==
    IF file.kind = "missing" THEN EmptyMap
    ELSE IF file.kind = "corrupt" THEN EmptyMap
    ELSE file.data

\* the whole document is overwritten
save_data(data) == [kind |-> "json", data |-> data]

\* open(file_path, "w") empties the file and json.dump then writes it piece by
\* piece: a save cut short leaves a document that json.load cannot decode.
\* data keeps what the document held before, which nothing can read any more.
torn(file) == [kind |-> "corrupt", data |-> file.data]

\* d[key] = value
Put(d, key, value) ==
    [k \in DOMAIN d \cup {key} |-> IF k = key THEN value ELSE d[k]]

\* a del that removes nothing
Del_nothing(d, key) == d

\* del d[key]
Del(d, key) == [k \in DOMAIN d \ {key} |-> d[k]]

-----------------------------------------------------------------------------
(* Requests the model sends *)

AliceMail == <<"a","l","@","e","x",".","c","o","m">>
BobMail   == <<"b","o","@","e","x",".","i","o">>
\* no top-level domain: fails the email pattern
NoTldMail == <<"a","l","@","e","x">>

Emails == {AliceMail, BobMail, NoTldMail}

Names == {"Alice"}

StrongA   == <<"A","b","c","d","e","f","g","1">>
StrongB   == <<"Z","y","x","w","v","u","t","9">>
NoDigit   == <<"A","b","c","d","e","f","g","h">>
TooShort  == <<"A","b","1">>

Passwords == {StrongA, StrongB, NoDigit, TooShort}

\* what uuid.uuid4() returns: opaque, never inspected by the handlers
Uuids == {"uuid-1"}

UserCreate == [name : Names, email : Emails, password : Passwords]
OTPVerify == [email : Emails, otp : Codes]
ResendRequest == [email : Emails]
UserLogin == [email : Emails, password : Passwords]

-----------------------------------------------------------------------------
(* Responses *)

\* marks a response that carries no number of seconds
None == 0 - 1

\* What the last request was and what it was answered: the HTTP status and
\* detail, and the number in "Wait {remaining} seconds before resending OTP.".
\* age records, for verify_otp and resend_otp, how old the PendingOTP the
\* handler found was (in ticks); it is an observation of the run, the
\* handlers keep no such value.
Reply(op, name, email, password, otp, result, remaining, age) ==
    [op |-> op, name |-> name, email |-> email, password |-> password,
     otp |-> otp, status |-> result.status, detail |-> result.detail,
     remaining |-> remaining, age |-> age]

Result(status, detail) == [status |-> status, detail |-> detail]

-----------------------------------------------------------------------------
(* signup *)

\* signup_check without the duplicate-email check
signup_check_no_conflict(users, user) ==
    IF ~is_valid_email(user.email)
      THEN Result(400, "Invalid email.")
    ELSE IF ~is_strong_password(user.password)
      THEN Result(400, "Weak password.")
    ELSE Result(200, "User registered. OTP sent to console.")

\* signup_check validating the payload before looking the email up
signup_check_validates_first(users, user) ==
    IF ~is_valid_email(user.email)
      THEN Result(400, "Invalid email.")
    ELSE IF ~is_strong_password(user.password)
      THEN Result(400, "Weak password.")
    ELSE IF user.email \in DOMAIN users
      THEN Result(409, "User already exists.")
    ELSE Result(200, "User registered. OTP sent to console.")

\* the checks of signup, in the order the handler makes them
signup_check(users, user) ==
    IF user.email \in DOMAIN users
      THEN Result(409, "User already exists.")
    ELSE IF ~is_valid_email(user.email)
      THEN Result(400, "Invalid email.")
    ELSE IF ~is_strong_password(user.password)
      THEN Result(400, "Weak password.")
    ELSE Result(200, "User registered. OTP sent to console.")

\* new_account trusting the email at once
new_account_verified(id, user) ==
    [id |-> id, name |-> user.name, email |-> user.email,
     password |-> user.password, verified |-> TRUE]

\* the account signup stores
new_account(id, user) ==
    [id |-> id, name |-> user.name, email |-> user.email,
     password |-> user.password, verified |-> FALSE]

\* the PendingOTP signup and resend store
new_otp(otp, t) == [otp |-> otp, timestamp |-> t]

\* signup stopping between its two saves (save_data(OTPS_FILE, ...) raising,
\* or the worker dying): the client gets a 500, or nothing
signup_interrupted(user, id) ==
    LET users == load_data(usersFile)
    IN  /\ signup_check(users, user).status = 200
        /\ usersFile' = save_data(Put(users, user.email, new_account(id, user)))
        /\ last' = Reply("signup", user.name, user.email, user.password, <<>>,
                         Result(500, "Internal Server Error"), None, None)
        /\ stdout' = <<>>
        /\ UNCHANGED <<otpsFile, now, others>>

signup(user, id, n) ==
    LET users  == load_data(usersFile)
        otps   == load_data(otpsFile)
        otp    == generate_otp(n)
        result == signup_check(users, user)
    IN  /\ last' = Reply("signup", user.name, user.email, user.password, <<>>,
                         result, None, None)
        /\ UNCHANGED <<now, others>>
        /\ IF result.status # 200
             THEN /\ stdout' = <<>>
                  /\ UNCHANGED <<usersFile, otpsFile>>
             ELSE /\ usersFile' = save_data(Put(users, user.email, new_account(id, user)))
                  /\ otpsFile' = save_data(Put(otps, user.email, new_otp(otp, now)))
                  /\ stdout' = <<[email |-> user.email, otp |-> otp]>>

-----------------------------------------------------------------------------
(* verify-otp *)

\* a comparison that accepts every code
otp_mismatch_never(entry, otp) == FALSE

\* a comparison that also refuses a code older than the cooldown
otp_mismatch_or_expired(entry, otp) ==
    entry.otp # otp \/ now - entry.timestamp >= COOLDOWN * TicksPerSec

\* otps[data.email]["otp"] != data.otp
otp_mismatch(entry, otp) == entry.otp # otp

\* verify_check refusing only a code that differs from a stored one
verify_check_missing_ok(otps, data) ==
    IF data.email \in DOMAIN otps /\ otp_mismatch(otps[data.email], data.otp)
      THEN Result(400, "Invalid OTP.")
    ELSE Result(200, "OTP verified successfully. User is now verified.")

\* the checks of verify_otp
verify_check(otps, data) ==
    IF data.email \notin DOMAIN otps
      THEN Result(404, "No OTP found for this email.")
    ELSE IF otp_mismatch(otps[data.email], data.otp)
      THEN Result(400, "Invalid OTP.")
    ELSE Result(200, "OTP verified successfully. User is now verified.")

\* an update that leaves the flag as it was
mark_verified_noop(account) == account

\* users[data.email]["verified"] = True
mark_verified(account) == [account EXCEPT !.verified = TRUE]

\* verify_otp stopping between its two saves
verify_otp_interrupted(data) ==
    LET otps == load_data(otpsFile)
    IN  /\ verify_check(otps, data).status = 200
        /\ otpsFile' = save_data(Del(otps, data.email))
        /\ last' = Reply("verify_otp", "", data.email, <<>>, data.otp,
                         Result(500, "Internal Server Error"), None,
                         now - otps[data.email].timestamp)
        /\ stdout' = <<>>
        /\ UNCHANGED <<usersFile, now, others>>

verify_otp(data) ==
    LET otps   == load_data(otpsFile)
        result == verify_check(otps, data)
        age    == IF data.email \in DOMAIN otps
                    THEN now - otps[data.email].timestamp ELSE None
    IN  /\ last' = Reply("verify_otp", "", data.email, <<>>, data.otp,
                         result, None, age)
        /\ stdout' = <<>>
        /\ UNCHANGED <<now, others>>
        /\ IF result.status # 200
             THEN UNCHANGED <<usersFile, otpsFile>>
             ELSE /\ otpsFile' = save_data(Del(otps, data.email))
                  /\ LET users == load_data(usersFile)
                     IN  IF data.email \in DOMAIN users
                           THEN usersFile' = save_data(Put(users, data.email,
                                                mark_verified(users[data.email])))
                           ELSE UNCHANGED usersFile

-----------------------------------------------------------------------------
(* resend-otp *)

\* a cooldown that never applies
in_cooldown_never(elapsed) == FALSE

\* elapsed < 300
in_cooldown(elapsed) == elapsed < COOLDOWN * TicksPerSec

\* int(300 - elapsed): int() truncates toward zero
remaining_seconds(elapsed) ==
    LET left == COOLDOWN * TicksPerSec - elapsed
    IN  IF left >= 0 THEN left \div TicksPerSec
        ELSE -((-left) \div TicksPerSec)

\* resend_check issuing a code to an email that has none
resend_check_issue_when_missing(otps, data, t) ==
    IF data.email \notin DOMAIN otps
      THEN Result(200, "OTP resent. Check console.")
    ELSE IF in_cooldown(t - otps[data.email].timestamp)
      THEN Result(403, "Wait {remaining} seconds before resending OTP.")
    ELSE Result(200, "OTP resent. Check console.")

\* the checks of resend_otp
resend_check(otps, data, t) ==
    IF data.email \notin DOMAIN otps
      THEN Result(404, "No signup found for this email.")
    ELSE IF in_cooldown(t - otps[data.email].timestamp)
      THEN Result(403, "Wait {remaining} seconds before resending OTP.")
    ELSE Result(200, "OTP resent. Check console.")

\* resend_otp restarting the cooldown of a throttled request
resend_otp_extends_cooldown(data, n) ==
    LET otps    == load_data(otpsFile)
        otp     == generate_otp(n)
        result  == resend_check(otps, data, now)
        elapsed == IF data.email \in DOMAIN otps
                     THEN now - otps[data.email].timestamp ELSE None
    IN  /\ last' = Reply("resend_otp", "", data.email, <<>>, <<>>, result,
                         IF result.status = 403 THEN remaining_seconds(elapsed) ELSE None,
                         elapsed)
        /\ UNCHANGED <<usersFile, now, others>>
        /\ IF result.status = 404
             THEN /\ stdout' = <<>>
                  /\ UNCHANGED otpsFile
           ELSE IF result.status = 403
             THEN /\ stdout' = <<>>
                  /\ otpsFile' = save_data(Put(otps, data.email,
                                     new_otp(otps[data.email].otp, now)))
             ELSE /\ otpsFile' = save_data(Put(otps, data.email, new_otp(otp, now)))
                  /\ stdout' = <<[email |-> data.email, otp |-> otp]>>

resend_otp(data, n) ==
    LET otps    == load_data(otpsFile)
        otp     == generate_otp(n)
        result  == resend_check(otps, data, now)
        elapsed == IF data.email \in DOMAIN otps
                     THEN now - otps[data.email].timestamp ELSE None
    IN  /\ last' = Reply("resend_otp", "", data.email, <<>>, <<>>, result,
                         IF result.status = 403 THEN remaining_seconds(elapsed) ELSE None,
                         elapsed)
        /\ UNCHANGED <<usersFile, now, others>>
        /\ IF result.status # 200
             THEN /\ stdout' = <<>>
                  /\ UNCHANGED otpsFile
             ELSE /\ otpsFile' = save_data(Put(otps, data.email, new_otp(otp, now)))
                  /\ stdout' = <<[email |-> data.email, otp |-> otp]>>

-----------------------------------------------------------------------------
(* login *)

\* the checks of login; every failure is raised with status_code = 404
login_check(users, data) ==
    IF data.email \notin DOMAIN users
      THEN Result(404, "user not found.")
    ELSE IF ~users[data.email].verified
      THEN Result(404, "Email not verified. Please verify OTP first.")
    ELSE IF users[data.email].password # data.password
      THEN Result(404, "incorrect password")
    ELSE Result(200, "Login successful. welcome {name}!")

login(data) ==
    /\ last' = Reply("login", "", data.email, data.password, <<>>,
                     login_check(load_data(usersFile), data), None, None)
    /\ stdout' = <<>>
    /\ UNCHANGED <<usersFile, otpsFile, now, others>>

-----------------------------------------------------------------------------
(* The clock *)

\* time passes between requests: just under one cooldown, or a whole one
Delays == {COOLDOWN * TicksPerSec - 1, COOLDOWN * TicksPerSec}

Tick(d) ==
    /\ now + d <= MaxClock * COOLDOWN * TicksPerSec
    /\ now' = now + d
    /\ UNCHANGED <<usersFile, otpsFile, last, stdout, others>>

-----------------------------------------------------------------------------
(* Requests in flight *)

\* the workers that may each be handling one request
Procs == {"w1", "w2"}

\* a worker handling nothing
Idle == [pc |-> "idle"]

-----------------------------------------------------------------------------
(* The product store *)

\* data/products.json before the first save
MissingProducts == [kind |-> "missing", data |-> <<>>]

\* a missing file and an undecodable one both load as []
load_products(file) ==
    IF file.kind = "missing" THEN <<>>
    ELSE IF file.kind = "corrupt" THEN <<>>
    ELSE file.data

\* the whole list is overwritten
save_products(products) == [kind |-> "json", data |-> products]

\* prices, in hundredths: negative, zero and 9.99
Prices == {0 - 500, 0, 999}

ProductCreate ==
    [name : {"Rose", "Tulip"}, price : Prices, categories : {"flowers"},
     page : {"home"}, image : {"img.png"}]

\* what str(uuid.uuid4()) may return for a product
ProductUuids == 1..MaxProducts

\* the ids uuid4 has already returned: every id generated is stored (the
\* price is checked before the id is made) and no product is ever removed
UsedUuids == {load_products(productsFile)[k].id :
                 k \in 1..Len(load_products(productsFile))}

\* a check that lets a free product through
price_rejected_below_zero(price) == price < 0

\* if product.price <= 0
price_rejected(price) == price <= 0

new_product(id, product) ==
    [id |-> id, name |-> product.name, price |-> product.price,
     categories |-> product.categories, page |-> product.page,
     image |-> product.image]

\* the request handled and its response (body: what the handler returns)
ProductReply(op, name, price, status, detail, body) ==
    [op |-> op, name |-> name, price |-> price, status |-> status,
     detail |-> detail, body |-> body]

\* POST /product; uuid4 returns an id it has not returned before
add_product(product, id) ==
    /\ UNCHANGED <<usersFile, otpsFile, now, stdout, procs>>
    /\ IF price_rejected(product.price)
         THEN /\ last' = ProductReply("add_product", product.name, product.price,
                                      400, "price must be greater than 0", <<>>)
              /\ UNCHANGED productsFile
         ELSE /\ id \notin UsedUuids
              /\ Len(load_products(productsFile)) < MaxProducts
              /\ productsFile' = save_products(
                     Append(load_products(productsFile), new_product(id, product)))
              /\ last' = ProductReply("add_product", product.name, product.price,
                                      200, "", new_product(id, product))

\* GET /products
get_products ==
    /\ last' = ProductReply("get_products", "", 0, 200, "",
                            load_products(productsFile))
    /\ UNCHANGED <<usersFile, otpsFile, now, stdout, productsFile, procs>>

NextProduct ==
    \/ \E product \in ProductCreate, id \in ProductUuids : add_product(product, id)
    \/ get_products

-----------------------------------------------------------------------------
(* Requests handled one at a time, each to completion *)

Init ==
    /\ usersFile = MissingFile
    /\ otpsFile = MissingFile
    /\ now = 0
    /\ last = Reply("start", "", <<>>, <<>>, <<>>, Result(0, ""), None, None)
    /\ stdout = <<>>
    /\ productsFile = MissingProducts
    /\ procs = [p \in Procs |-> Idle]

Next ==
    \/ \E user \in UserCreate, id \in Uuids, n \in Draws : signup(user, id, n)
    \/ \E data \in OTPVerify : verify_otp(data)
    \/ \E data \in ResendRequest, n \in Draws : resend_otp(data, n)
    \/ \E data \in UserLogin : login(data)
    \/ \E d \in Delays : Tick(d)

Spec == Init /\ [][Next]_vars

\* a save of the accounts document is cut short
TornSave ==
    /\ usersFile.kind = "json"
    /\ usersFile' = torn(usersFile)
    /\ UNCHANGED <<otpsFile, now, last, stdout, others>>

NextCorrupt ==
    \/ \E user \in UserCreate, id \in Uuids, n \in Draws : signup(user, id, n)
    \/ \E data \in OTPVerify : verify_otp(data)
    \/ \E data \in ResendRequest, n \in Draws : resend_otp(data, n)
    \/ \E data \in UserLogin : login(data)
    \/ TornSave

\* requests one at a time on an accounts document that may get damaged
SpecCorrupt == Init /\ [][NextCorrupt]_vars

NextCrash ==
    \/ \E user \in UserCreate, id \in Uuids, n \in Draws : signup(user, id, n)
    \/ \E data \in OTPVerify : verify_otp(data)
    \/ \E data \in ResendRequest, n \in Draws : resend_otp(data, n)
    \/ \E data \in UserLogin : login(data)
    \/ \E d \in Delays : Tick(d)
    \/ \E user \in UserCreate, id \in Uuids : signup_interrupted(user, id)
    \/ \E data \in OTPVerify : verify_otp_interrupted(data)

\* requests one at a time, where signup and verify_otp may stop between their
\* two saves
SpecCrash == Init /\ [][NextCrash]_vars

-----------------------------------------------------------------------------
(* signup and verify_otp interleaved: each load and each save is a step of   *)
(* its own, and a worker keeps what it loaded until it saves                 *)
(* stdout holds what the last step printed                                   *)

\* the signups and verifications the workers are sent
RaceEmails == {AliceMail, BobMail}
RaceSignups == [name : Names, email : RaceEmails, password : {StrongA}]
RaceVerifies == [email : RaceEmails, otp : Codes]

\* a worker that has answered; marked tells whether verify_otp went through
\* the branch that sets verified
Done(op, email, status, marked) ==
    [pc |-> "done", op |-> op, email |-> email,
     status |-> status, marked |-> marked]

Free(p) == procs[p].pc \in {"idle", "done"}

\* users = load_data(USERS_FILE)
signup_load_users(p, user, id) ==
    /\ Free(p)
    /\ procs' = [procs EXCEPT ![p] =
                    [pc |-> "s139", op |-> "signup", req |-> user, id |-> id,
                     users |-> load_data(usersFile)]]
    /\ stdout' = <<>>
    /\ UNCHANGED <<usersFile, otpsFile, now, last, productsFile>>

\* otps = load_data(OTPS_FILE), then the three checks
signup_load_otps(p) ==
    /\ procs[p].pc = "s139"
    /\ LET me     == procs[p]
           result == signup_check(me.users, me.req)
       IN  procs' = [procs EXCEPT ![p] =
                        IF result.status # 200
                          THEN Done("signup", me.req.email, result.status, FALSE)
                          ELSE [me EXCEPT !.pc = "s157"]
                               @@ [otps |-> load_data(otpsFile)]]
    /\ stdout' = <<>>
    /\ UNCHANGED <<usersFile, otpsFile, now, last, productsFile>>

\* a save that reads the document again and adds to what is there now
signup_save_users_merging(p) ==
    /\ procs[p].pc = "s157"
    /\ usersFile' = save_data(Put(load_data(usersFile), procs[p].req.email,
                                  new_account(procs[p].id, procs[p].req)))
    /\ procs' = [procs EXCEPT ![p].pc = "s164"]
    /\ stdout' = <<>>
    /\ UNCHANGED <<otpsFile, now, last, productsFile>>

\* users[user.email] = {...}; save_data(USERS_FILE, users)
signup_save_users(p) ==
    /\ procs[p].pc = "s157"
    /\ usersFile' = save_data(Put(procs[p].users, procs[p].req.email,
                                  new_account(procs[p].id, procs[p].req)))
    /\ procs' = [procs EXCEPT ![p].pc = "s164"]
    /\ stdout' = <<>>
    /\ UNCHANGED <<otpsFile, now, last, productsFile>>

\* otps[user.email] = {...}; save_data(OTPS_FILE, otps); print; return
signup_save_otps(p, n) ==
    /\ procs[p].pc = "s164"
    /\ otpsFile' = save_data(Put(procs[p].otps, procs[p].req.email,
                                 new_otp(generate_otp(n), now)))
    /\ stdout' = <<[email |-> procs[p].req.email, otp |-> generate_otp(n)]>>
    /\ procs' = [procs EXCEPT ![p] = Done("signup", procs[p].req.email, 200, FALSE)]
    /\ UNCHANGED <<usersFile, now, last, productsFile>>

\* otps = load_data(OTPS_FILE), then the two checks
verify_load_otps(p, data) ==
    /\ Free(p)
    /\ LET otps   == load_data(otpsFile)
           result == verify_check(otps, data)
       IN  procs' = [procs EXCEPT ![p] =
                        IF result.status # 200
                          THEN Done("verify_otp", data.email, result.status, FALSE)
                          ELSE [pc |-> "v190", op |-> "verify_otp", req |-> data,
                                otps |-> otps]]
    /\ stdout' = <<>>
    /\ UNCHANGED <<usersFile, otpsFile, now, last, productsFile>>

\* del otps[data.email]; save_data(OTPS_FILE, otps)
verify_save_otps(p) ==
    /\ procs[p].pc = "v190"
    /\ otpsFile' = save_data(Del(procs[p].otps, procs[p].req.email))
    /\ procs' = [procs EXCEPT ![p].pc = "v192"]
    /\ stdout' = <<>>
    /\ UNCHANGED <<usersFile, now, last, productsFile>>

\* users = load_data(USERS_FILE); if data.email in users
verify_load_users(p) ==
    /\ procs[p].pc = "v192"
    /\ LET me    == procs[p]
           users == load_data(usersFile)
       IN  procs' = [procs EXCEPT ![p] =
                        IF me.req.email \in DOMAIN users
                          THEN [me EXCEPT !.pc = "v195"] @@ [users |-> users]
                          ELSE Done("verify_otp", me.req.email, 200, FALSE)]
    /\ stdout' = <<>>
    /\ UNCHANGED <<usersFile, otpsFile, now, last, productsFile>>

\* users[data.email]["verified"] = True; save_data(USERS_FILE, users); return
verify_save_users(p) ==
    /\ procs[p].pc = "v195"
    /\ LET me == procs[p]
       IN  /\ usersFile' = save_data(Put(me.users, me.req.email,
                                         mark_verified(me.users[me.req.email])))
           /\ procs' = [procs EXCEPT ![p] =
                           Done("verify_otp", me.req.email, 200, TRUE)]
    /\ stdout' = <<>>
    /\ UNCHANGED <<otpsFile, now, last, productsFile>>

NextRace ==
    \/ \E p \in Procs, user \in RaceSignups, id \in Uuids : signup_load_users(p, user, id)
    \/ \E p \in Procs : signup_load_otps(p)
    \/ \E p \in Procs : signup_save_users(p)
    \/ \E p \in Procs, n \in Draws : signup_save_otps(p, n)
    \/ \E p \in Procs, data \in RaceVerifies : verify_load_otps(p, data)
    \/ \E p \in Procs : verify_save_otps(p)
    \/ \E p \in Procs : verify_load_users(p)
    \/ \E p \in Procs : verify_save_users(p)

\* two workers handling signups and verifications at once
SpecRace == Init /\ [][NextRace]_vars

\* the product requests, one at a time
SpecProduct == Init /\ [][NextProduct]_vars

-----------------------------------------------------------------------------
(* What the claims are stated over *)

\* the accounts and the pending OTPs a request finds
Users == load_data(usersFile)
Otps == load_data(otpsFile)

\* this step handled a request of kind op for email e (the clock stands still
\* while a request is handled, and moves in every other step)
Handles(op, e) == now' = now /\ last'.op = op /\ last'.email = e

ValidEmails == {AliceMail, BobMail}
StrongPasswords == {StrongA, StrongB}

CooldownTicks == COOLDOWN * TicksPerSec

-----------------------------------------------------------------------------
\* C1: requests run one at a time only move an account forward along
\* Unregistered -> PendingVerification -> Verified: an account that exists is
\* never removed, and a verified flag that is true is never set back to false.
C1_ForwardOnly ==
    [][\A e \in Emails :
          e \in DOMAIN Users =>
              /\ e \in DOMAIN Users'
              /\ Users[e].verified => Users'[e].verified]_vars

\* a signup was attempted on an account that is already verified
C1_Witness ==
    /\ last.op = "signup"
    /\ last.email \in DOMAIN Users
    /\ Users[last.email].verified

\* C2: signup with an email that is already a key of the accounts store fails
\* with 409 Conflict, whatever the state of the account and whatever the
\* payload, and leaves the accounts, the pending OTPs and the console alone.
C2_ConflictOnExisting ==
    [][\A e \in Emails :
          (Handles("signup", e) /\ e \in DOMAIN Users) =>
              /\ last'.status = 409
              /\ usersFile' = usersFile
              /\ otpsFile' = otpsFile
              /\ stdout' = <<>>]_vars

\* a signup with a weak password was refused as a duplicate of an unverified
\* account whose OTP is still pending
C2_Witness ==
    /\ last.op = "signup"
    /\ last.status = 409
    /\ last.password \notin StrongPasswords
    /\ last.email \in DOMAIN Users
    /\ ~Users[last.email].verified
    /\ last.email \in DOMAIN Otps

\* C3: a successful signup leaves the account unverified, and verified only
\* becomes true in a verify_otp step for that email whose code equals the code
\* stored at that moment.
C3_VerifiedOnlyByMatchingOtp ==
    [][\A e \in Emails :
          /\ (Handles("signup", e) /\ last'.status = 200) =>
                 (e \in DOMAIN Users' /\ ~Users'[e].verified)
          /\ (/\ e \in DOMAIN Users'
              /\ Users'[e].verified
              /\ ~(e \in DOMAIN Users /\ Users[e].verified)) =>
                 /\ Handles("verify_otp", e)
                 /\ e \in DOMAIN Users
                 /\ e \in DOMAIN Otps
                 /\ last'.otp = Otps[e].otp]_vars

\* an account is still unverified after a verification with the wrong code
\* was refused
C3_Witness ==
    /\ last.op = "verify_otp"
    /\ last.status = 400
    /\ last.email \in DOMAIN Users
    /\ ~Users[last.email].verified

\* C4: verify_otp with the stored code succeeds, sets the account's verified
\* flag and deletes the PendingOTP; the same request sent again right after
\* fails with 404 NotFound.
C4_VerifyConsumesOtp ==
    [][\A e \in Emails :
          /\ (/\ Handles("verify_otp", e)
              /\ e \in DOMAIN Otps
              /\ last'.otp = Otps[e].otp) =>
                 /\ last'.status = 200
                 /\ e \notin DOMAIN Otps'
                 /\ e \in DOMAIN Users'
                 /\ Users'[e].verified
          /\ (/\ last.op = "verify_otp"
              /\ last.status = 200
              /\ last.email = e
              /\ Handles("verify_otp", e)
              /\ last'.otp = last.otp) =>
                 last'.status = 404]_vars

\* the second verification with the code that verified the account was
\* answered 404
C4_Witness ==
    /\ last.op = "verify_otp"
    /\ last.status = 404
    /\ last.email \in DOMAIN Users
    /\ Users[last.email].verified
    /\ last.email \notin DOMAIN Otps

\* ceil(a / b) for b > 0
CeilDiv(a, b) == -((-a) \div b)

\* C5: resend_otp less than 300 seconds after the PendingOTP was issued fails
\* with 403 Throttled, and the seconds it reports are 300 minus the elapsed
\* time rounded up, hence never 0 or less.
C5_ThrottledRemainingCeil ==
    [][\A e \in Emails :
          (/\ Handles("resend_otp", e)
           /\ e \in DOMAIN Otps
           /\ now - Otps[e].timestamp < CooldownTicks) =>
              /\ last'.status = 403
              /\ last'.remaining =
                     CeilDiv(CooldownTicks - (now - Otps[e].timestamp), TicksPerSec)
              /\ last'.remaining > 0]_vars

\* C6: resend_otp 300 seconds or more after the PendingOTP was issued succeeds
\* and replaces the code and the issue time, and a verify_otp with the previous
\* code no longer succeeds, whatever code was generated.
C6_ResendInvalidatesPrevious ==
    [][\A e \in Emails :
          (/\ Handles("resend_otp", e)
           /\ e \in DOMAIN Otps
           /\ now - Otps[e].timestamp >= CooldownTicks) =>
              /\ last'.status = 200
              /\ e \in DOMAIN Otps'
              /\ Otps'[e].timestamp = now
              /\ verify_check(Otps', [email |-> e, otp |-> Otps[e].otp]).status # 200]_vars

\* C7: login succeeds exactly when the account exists, is verified and the
\* password equals the stored one; it fails with 404 NotFound when there is no
\* account, with 403 Forbidden when the account is unverified (checked first)
\* and with 403 Forbidden when the password is wrong.
C7_LoginKinds ==
    [][\A e \in Emails :
          Handles("login", e) =>
              /\ last'.status = 200 <=>
                     /\ e \in DOMAIN Users
                     /\ Users[e].verified
                     /\ Users[e].password = last'.password
              /\ e \notin DOMAIN Users => last'.status = 404
              /\ (e \in DOMAIN Users /\ ~Users[e].verified) =>
                     /\ last'.status = 403
                     /\ last'.detail = "Email not verified. Please verify OTP first."
              /\ (/\ e \in DOMAIN Users
                  /\ Users[e].verified
                  /\ Users[e].password # last'.password) =>
                     last'.status = 403]_vars

\* C8: verify_otp with a code other than the stored one fails with 400
\* InvalidInput and changes nothing: the PendingOTP keeps its code and issue
\* time, the account stays unverified, and the stored code still verifies.
C8_WrongCodeChangesNothing ==
    [][\A e \in Emails :
          (/\ Handles("verify_otp", e)
           /\ e \in DOMAIN Otps
           /\ last'.otp # Otps[e].otp) =>
              /\ last'.status = 400
              /\ usersFile' = usersFile
              /\ otpsFile' = otpsFile
              /\ e \in DOMAIN Users'
              /\ ~Users'[e].verified
              /\ verify_check(Otps', [email |-> e, otp |-> Otps[e].otp]).status = 200]_vars

\* a wrong code was refused and the PendingOTP is still there with the issue
\* time it had
C8_Witness ==
    /\ last.op = "verify_otp"
    /\ last.status = 400
    /\ last.email \in DOMAIN Otps
    /\ Otps[last.email].otp # last.otp
    /\ now - Otps[last.email].timestamp = last.age

\* C9: a PendingOTP never expires: the passing of time changes neither store,
\* and verify_otp with the stored code succeeds however old the PendingOTP is.
C9_NoExpiry ==
    [][/\ now' # now => (usersFile' = usersFile /\ otpsFile' = otpsFile)
       /\ \A e \in Emails :
             (/\ Handles("verify_otp", e)
              /\ e \in DOMAIN Otps
              /\ last'.otp = Otps[e].otp) =>
                 /\ last'.status = 200
                 /\ last'.age = now - Otps[e].timestamp]_vars

\* a verification succeeded on a PendingOTP at least as old as the cooldown
C9_Witness ==
    /\ last.op = "verify_otp"
    /\ last.status = 200
    /\ last.age >= CooldownTicks

\* C10: signup with an unregistered email fails with 400 InvalidInput when the
\* email or the password is not acceptable, and then creates no Account and no
\* PendingOTP and prints no code; otherwise it creates an unverified Account
\* and a PendingOTP and prints the code.
C10_InvalidSignupCreatesNothing ==
    [][\A e \in Emails :
          (Handles("signup", e) /\ e \notin DOMAIN Users) =>
              IF e \in ValidEmails /\ last'.password \in StrongPasswords
                THEN /\ last'.status = 200
                     /\ e \in DOMAIN Users'
                     /\ ~Users'[e].verified
                     /\ Users'[e].password = last'.password
                     /\ e \in DOMAIN Otps'
                     /\ Otps'[e].timestamp = now
                     /\ stdout' = <<[email |-> e, otp |-> Otps'[e].otp]>>
                ELSE /\ last'.status = 400
                     /\ usersFile' = usersFile
                     /\ otpsFile' = otpsFile
                     /\ stdout' = <<>>]_vars

\* a signup with a valid, unregistered email and a password without a digit
\* was refused
C10_Witness ==
    /\ last.op = "signup"
    /\ last.status = 400
    /\ last.email \in ValidEmails
    /\ last.password = NoDigit
    /\ last.email \notin DOMAIN Users

-----------------------------------------------------------------------------
\* C12: with requests run one at a time, an OTP is issued for an email (by
\* signup or resend_otp) only when no PendingOTP is outstanding or the
\* outstanding one is at least 300 seconds old, and the issue resets the issue
\* time to now; so a resend_otp right after a successful one is throttled.
C12_CooldownBetweenIssues ==
    [][\A e \in Emails :
          /\ ((Handles("signup", e) \/ Handles("resend_otp", e))
                 /\ last'.status = 200) =>
                 /\ e \in DOMAIN Otps => now - Otps[e].timestamp >= CooldownTicks
                 /\ e \in DOMAIN Otps'
                 /\ Otps'[e].timestamp = now
          /\ (/\ last.op = "resend_otp"
              /\ last.status = 200
              /\ last.email = e
              /\ e \in DOMAIN Otps
              /\ Otps[e].timestamp = now
              /\ Handles("resend_otp", e)) =>
                 last'.status = 403]_vars

\* a resend went through on a PendingOTP a cooldown old and restarted the
\* cooldown
C12_Witness ==
    /\ last.op = "resend_otp"
    /\ last.status = 200
    /\ last.age >= CooldownTicks
    /\ last.email \in DOMAIN Otps
    /\ Otps[last.email].timestamp = now
    /\ now > 0

\* C13: verify_otp and resend_otp for an email without a PendingOTP fail with
\* 404 NotFound and change neither store, for an email that never signed up as
\* for a verified account; a verified account is never given a PendingOTP.
C13_NoOtpNotFound ==
    [][\A e \in Emails :
          /\ ((Handles("verify_otp", e) \/ Handles("resend_otp", e))
                 /\ e \notin DOMAIN Otps) =>
                 /\ last'.status = 404
                 /\ usersFile' = usersFile
                 /\ otpsFile' = otpsFile
                 /\ stdout' = <<>>
          /\ (e \in DOMAIN Users /\ Users[e].verified) => e \notin DOMAIN Otps']_vars

\* a resend for a verified account was answered 404
C13_Witness ==
    /\ last.op = "resend_otp"
    /\ last.status = 404
    /\ last.email \in DOMAIN Users
    /\ Users[last.email].verified

\* C16: with requests run one at a time from empty stores, an email has a
\* PendingOTP exactly when it has an Account that is not verified.
C16_OtpIffUnverified ==
    \A e \in Emails :
        e \in DOMAIN Otps <=> (e \in DOMAIN Users /\ ~Users[e].verified)

\* one account is verified and has no PendingOTP while another is pending
\* with one
C16_Witness ==
    /\ AliceMail \in DOMAIN Users
    /\ Users[AliceMail].verified
    /\ AliceMail \notin DOMAIN Otps
    /\ BobMail \in DOMAIN Otps
    /\ ~Users[BobMail].verified

\* C17: a resend_otp inside the cooldown leaves the PendingOTP as it is (same
\* code, same issue time), prints nothing, and the code issued before still
\* verifies.
C17_ThrottledResendChangesNothing ==
    [][\A e \in Emails :
          (/\ Handles("resend_otp", e)
           /\ e \in DOMAIN Otps
           /\ now - Otps[e].timestamp < CooldownTicks) =>
              /\ last'.status = 403
              /\ usersFile' = usersFile
              /\ otpsFile' = otpsFile
              /\ stdout' = <<>>
              /\ verify_check(Otps', [email |-> e, otp |-> Otps[e].otp]).status = 200]_vars

\* a resend was throttled some time after the issue and the PendingOTP still
\* has the issue time it had
C17_Witness ==
    /\ last.op = "resend_otp"
    /\ last.status = 403
    /\ last.age > 0
    /\ last.email \in DOMAIN Otps
    /\ now - Otps[last.email].timestamp = last.age

-----------------------------------------------------------------------------
\* the products a request finds
Products == load_products(productsFile)

-----------------------------------------------------------------------------
-----------------------------------------------------------------------------
\* an unverified Account without a PendingOTP
Stuck(e) ==
    /\ e \in DOMAIN Users
    /\ ~Users[e].verified
    /\ e \notin DOMAIN Otps

\* C18: a signup or a verify_otp that stops between its two saves leaves the
\* email with an unverified Account and no PendingOTP; from then on signup
\* answers 409, verify_otp and resend_otp answer 404, login never succeeds,
\* and the email stays in that state whatever is called and however long one
\* waits.
C18_StoppedBetweenSavesIsStuck ==
    [][\A e \in Emails :
          /\ ((Handles("signup", e) \/ Handles("verify_otp", e))
                 /\ last'.status = 500) => Stuck(e)'
          /\ Stuck(e) =>
                 /\ Stuck(e)'
                 /\ Handles("signup", e) => last'.status = 409
                 /\ Handles("verify_otp", e) => last'.status = 404
                 /\ Handles("resend_otp", e) => last'.status = 404
                 /\ Handles("login", e) => last'.status # 200]_vars

\* a cooldown after a request stopped half way, a resend for that email was
\* answered 404 and the account is still unverified without a PendingOTP
C18_Witness ==
    /\ last.op = "resend_otp"
    /\ last.status = 404
    /\ Stuck(last.email)
    /\ now >= CooldownTicks

-----------------------------------------------------------------------------
\* worker p goes from position a to position b
Step(p, a, b) == procs[p].pc = a /\ procs'[p].pc = b

\* apart from the entry of the saving request itself, the saved document is
\* the copy that request had loaded
SavedOver(store, copy, own) ==
    \A e \in Emails \ {own} :
       /\ e \in DOMAIN store <=> e \in DOMAIN copy
       /\ e \in DOMAIN store => store[e] = copy[e]

\* C11: every save of signup and verify_otp writes the copy the request had
\* loaded with its own entry changed, so whatever other requests saved in
\* between is gone (the last save wins), and the request still answers 200.
C11_LastSaveWins ==
    [][\A p \in Procs :
          /\ Step(p, "s157", "s164") =>
                /\ SavedOver(Users', procs[p].users, procs[p].req.email)
                /\ procs[p].req.email \in DOMAIN Users'
          /\ Step(p, "s164", "done") =>
                /\ SavedOver(Otps', procs[p].otps, procs[p].req.email)
                /\ procs[p].req.email \in DOMAIN Otps'
                /\ procs'[p].status = 200
          /\ Step(p, "v190", "v192") =>
                /\ SavedOver(Otps', procs[p].otps, procs[p].req.email)
                /\ procs[p].req.email \notin DOMAIN Otps'
          /\ Step(p, "v195", "done") =>
                /\ SavedOver(Users', procs[p].users, procs[p].req.email)
                /\ procs'[p].status = 200]_vars

\* both workers answered 200 to signups for different emails and the accounts
\* store holds one account
C11_Witness ==
    /\ procs["w1"] = Done("signup", AliceMail, 200, FALSE)
    /\ procs["w2"] = Done("signup", BobMail, 200, FALSE)
    /\ Cardinality(DOMAIN Users) = 1

-----------------------------------------------------------------------------
Verified(e) == e \in DOMAIN Users /\ Users[e].verified

\* a verify_otp for e was answered 200 after it saved verified = True
ObservedVerified(e) ==
    \E q \in Procs : procs[q] = Done("verify_otp", e, 200, TRUE)

\* a signup for e has been accepted and not answered yet
SignupUnderWay(e) ==
    \E p \in Procs : procs[p].pc \in {"s139", "s157", "s164"} /\ procs[p].req.email = e

=============================================================================
